---- MODULE Spec2Model ----
(***************************************************************************)
(* Model of the invoice core of src/app.py: the counter transaction        *)
(* (get_next_counter), the invoice builder with its tax split              *)
(* (handle_invoice), the credit-note deriver (generate_credit_note), the   *)
(* endpoints that render stored documents (download_invoice, download_zip, *)
(* email_invoice) and what PDF_Generator prints of the banner and of the   *)
(* amount in words (convert_to_words), over the Firestore collections they *)
(* read and write.                                                         *)
(*                                                                         *)
(* Text (bill numbers, GSTINs, prefixes) is a sequence of one-character    *)
(* strings.  Money is an integer number of mills (1/1000 rupee), so that   *)
(* round(x, 2) is a real rounding to a multiple of 10 mills.  Python       *)
(* rounds a float by its binary value: where the decimal value is an exact *)
(* half, the double decides.  For round(tax_amt/2, 2) the model computes   *)
(* which way the double of tax_amt lies (FloatExcess); for the two other   *)
(* roundings of a line an exact half may go either way, and the amounts    *)
(* the specifications draw produce no such half.  Apart from these halves  *)
(* the binary error of a float (1e-13 of the value) is not modelled.       *)
(***************************************************************************)
EXTENDS Integers, Sequences, FiniteSets, TLC

\* ----------------------------------------------------------------- bounds
\* concurrent request handlers (worker threads / processes of the web app)
NumProcs == 2
\* requests served in one behaviour of Spec, SpecSeq and SpecRender
MaxRequests == 3
\* line items of a request drawn in SpecTax
MaxLines == 2

Procs == 1..NumProcs

\* ------------------------------------------------------------------- text
\* A field that a stored dict does not hold (dict.get gives None).
Absent == <<"absent">>

CharCode(c) ==
    CASE c = "-" -> 45 [] c = "/" -> 47
      [] c = "0" -> 48 [] c = "1" -> 49 [] c = "2" -> 50 [] c = "3" -> 51
      [] c = "4" -> 52 [] c = "5" -> 53 [] c = "6" -> 54 [] c = "7" -> 55
      [] c = "8" -> 56 [] c = "9" -> 57
      [] c = "A" -> 65 [] c = "B" -> 66 [] c = "C" -> 67 [] c = "E" -> 69
      [] c = "M" -> 77 [] c = "N" -> 78 [] c = "S" -> 83 [] c = "T" -> 84
      [] c = "X" -> 88 [] c = "Z" -> 90
      [] c = "_" -> 95
      [] c = "m" -> 109 [] c = "s" -> 115 [] c = "t" -> 116
      [] OTHER -> 0

\* str.upper() on the characters the model uses
UpperChar(c) ==
    CASE c = "m" -> "M" [] c = "s" -> "S" [] c = "t" -> "T" [] OTHER -> c

Upper(s) == [i \in 1..Len(s) |-> UpperChar(s[i])]

\* s.replace(old, new) for one-character old and new
ReplaceChar(s, old, new) == [i \in 1..Len(s) |-> IF s[i] = old THEN new ELSE s[i]]

\* s.startswith(prefix)
StartsWith(s, prefix) ==
    /\ Len(prefix) <= Len(s)
    /\ \A i \in 1..Len(prefix) : s[i] = prefix[i]

\* s.strip(), for blanks
RECURSIVE LStrip(_)
LStrip(s) == IF Len(s) > 0 /\ s[1] = " " THEN LStrip(Tail(s)) ELSE s

RECURSIVE RStrip(_)
RStrip(s) == IF Len(s) > 0 /\ s[Len(s)] = " " THEN RStrip(SubSeq(s, 1, Len(s) - 1)) ELSE s

Strip(s) == RStrip(LStrip(s))

\* [str(p).strip() for p in particulars]
StripAll(ps) == [i \in 1..Len(ps) |-> Strip(ps[i])]

\* s[:n]
Take(s, n) == SubSeq(s, 1, IF Len(s) < n THEN Len(s) ELSE n)

Digit(d) == <<"0", "1", "2", "3", "4", "5", "6", "7", "8", "9">>[d + 1]

RECURSIVE Digits(_)
Digits(n) == IF n < 10 THEN <<Digit(n)>> ELSE Digits(n \div 10) \o <<Digit(n % 10)>>

RECURSIVE ZeroPad(_, _)
ZeroPad(s, width) == IF Len(s) >= width THEN s ELSE ZeroPad(<<"0">> \o s, width)

\* f"{n:04d}" for n >= 0
Fmt04d(n) == ZeroPad(Digits(n), 4)

\* the order in which a collection streams its documents: by document id
RECURSIVE StrLess(_, _)
StrLess(a, b) ==
    IF Len(b) = 0 THEN FALSE
    ELSE IF Len(a) = 0 THEN TRUE
    ELSE IF CharCode(a[1]) # CharCode(b[1]) THEN CharCode(a[1]) < CharCode(b[1])
    ELSE StrLess(Tail(a), Tail(b))

FY == <<"2", "0", "2", "5", "-", "2", "6">>

\* ------------------------------------------------------------------ money
Abs(x) == IF x < 0 THEN -x ELSE x

\* n/d (d > 0) rounded to the nearest integer; an exact half goes up or down
\* as `up` says
RoundRatio(n, d, up) ==
    LET q == n \div d
        r == n % d
    IN  IF 2 * r > d \/ (2 * r = d /\ up) THEN q + 1 ELSE q

RECURSIVE Pow2Mod100(_)
Pow2Mod100(s) == IF s = 0 THEN 1 ELSE (2 * Pow2Mod100(s - 1)) % 100

\* the binary exponent e of k/100 (k > 0): 2^e <= k/100 < 2^(e+1)
RECURSIVE BinaryExponent(_)
BinaryExponent(k) ==
    IF k >= 200 THEN BinaryExponent(k \div 2) + 1
    ELSE IF k < 100 THEN BinaryExponent(2 * k) - 1
    ELSE 0

\* float(k/100) for k > 0 paise, against the decimal k/100: 1 if the double
\* (53 bits, round to nearest) is larger, -1 if smaller, 0 if equal
FloatExcess(k) ==
    LET r == ((k % 100) * Pow2Mod100(52 - BinaryExponent(k))) % 100
    IN  IF r = 0 THEN 0 ELSE IF r > 50 THEN 1 ELSE -1

\* round(x, 2) of x mills
Round2(x, up) == 10 * RoundRatio(x, 10, up)

RECURSIVE SumSeq(_)
SumSeq(s) == IF Len(s) = 0 THEN 0 ELSE s[1] + SumSeq(Tail(s))

\* ------------------------------------------------------ seller and buyer
\* get_seller_profile_data(): the fields the core reads.  invoice_prefix is
\* Absent when the stored profile has none.
Profile(gstin, invoice_prefix) == [gstin |-> gstin, invoice_prefix |-> invoice_prefix]

\* profile.get('invoice_prefix', 'TE').upper()
Prefix(prof) ==
    Upper(IF prof.invoice_prefix = Absent THEN <<"T", "E">> ELSE prof.invoice_prefix)

\* mutant: no default state code
MyStateCodeNoDefault(my_gstin) == Take(my_gstin, 2)

\* my_gstin[:2] if my_gstin else '06'
MyStateCode(my_gstin) == IF Len(my_gstin) = 0 THEN <<"0", "6">> ELSE Take(my_gstin, 2)

\* data.get('client_gstin','').startswith(my_state_code)
SameState(client_gstin, my_gstin) == StartsWith(client_gstin, MyStateCode(my_gstin))

\* f"{prefix}/2025-26/{counter:04d}"
InvoiceBillNo(prof, counter) == Prefix(prof) \o <<"/">> \o FY \o <<"/">> \o Fmt04d(counter)

\* f"{prefix}-CN/2025-26/{cn_counter:04d}"
CreditNoteBillNo(prof, cn_counter) ==
    Prefix(prof) \o <<"-", "C", "N", "/">> \o FY \o <<"/">> \o Fmt04d(cn_counter)

\* invoice_data['bill_no'].replace('/', '_')
DocId(bill_no) == ReplaceChar(bill_no, "/", "_")

\* ------------------------------------------------------------- tax split
\* How the roundings of taxable and tax_amt of one line resolve an exact half.
TieChoice == [taxable : BOOLEAN, tax : BOOLEAN]

\* the locals of handle_invoice's loop before its first iteration
LoopStart ==
    [line_taxable |-> <<>>, line_tax |-> <<>>, line_total |-> <<>>,
     cgst_amt |-> <<>>, sgst_amt |-> <<>>,
     total_igst |-> 0, total_cgst |-> 0, total_sgst |-> 0]

\* mutant: the supplied rate is used on an exempt document too
TaxRateSupplied(is_non_gst, taxrates, i) == IF i <= Len(taxrates) THEN taxrates[i] ELSE 0

\* tax_rate = 0 if is_non_gst else (float(taxrates[i]) if i < len(taxrates) else 0)
TaxRate(is_non_gst, taxrates, i) ==
    IF is_non_gst THEN 0 ELSE IF i <= Len(taxrates) THEN taxrates[i] ELSE 0

\* mutant: the tax is taken off the inclusive amount, inclusive * (1 - tax_rate/100)
TaxableOff(inclusive, tax_rate, up) ==
    10 * RoundRatio(inclusive * (100 - tax_rate), 1000, up)

\* taxable = round(inclusive / (1 + tax_rate/100), 2): in paise the ratio is
\* inclusive * 10 / (100 + tax_rate), taken quotient first so that the
\* product stays small
Taxable(inclusive, tax_rate, up) ==
    LET d == 100 + tax_rate
    IN  10 * (10 * (inclusive \div d) + RoundRatio(10 * (inclusive % d), d, up))

\* tax_amt = round(inclusive - taxable, 2)
TaxAmt(inclusive, taxable, up) == Round2(inclusive - taxable, up)

\* mutant: round(tax_amt/2), to whole rupees
CgstAmtWhole(tax_amt) == 1000 * RoundRatio(tax_amt, 2000, FALSE)

\* cgst_amt = round(tax_amt/2, 2): tax_amt is the double next to a whole
\* number k of paise and halving it is exact, so an odd k rounds the way
\* that double lies from k/100 (to the even paise if the double is k/100)
CgstAmt(tax_amt) ==
    LET k  == Abs(tax_amt) \div 10
        lo == k \div 2
        c  == IF k % 2 = 0 THEN lo
              ELSE IF FloatExcess(k) > 0 THEN lo + 1
              ELSE IF FloatExcess(k) < 0 THEN lo
              ELSE IF lo % 2 = 0 THEN lo ELSE lo + 1
    IN  IF tax_amt < 0 THEN -10 * c ELSE 10 * c

\* mutant: sgst_amt is the rounded half too
SgstAmtHalf(tax_amt, cgst_amt) == cgst_amt

\* sgst_amt = tax_amt - cgst_amt
SgstAmt(tax_amt, cgst_amt) == tax_amt - cgst_amt

\* "if not is_non_gst: if ...startswith(my_state_code):" - the line splits
Splits(is_non_gst, same_state) == (~is_non_gst) /\ same_state

\* mutant: the tax of every taxed line is added to IGST
GoesToIgstAlways(is_non_gst, same_state) == ~is_non_gst

\* "if not is_non_gst: ... else: total_igst += tax_amt"
GoesToIgst(is_non_gst, same_state) == (~is_non_gst) /\ ~same_state

\* one iteration of the loop over amounts_inclusive; cgst_amt and sgst_amt
\* are kept per line (0 on a line that does not split)
LineStep(s, inclusive, tax_rate, is_non_gst, same_state, tie) ==
    LET taxable  == Taxable(inclusive, tax_rate, tie.taxable)
        tax_amt  == TaxAmt(inclusive, taxable, tie.tax)
        split    == Splits(is_non_gst, same_state)
        cgst_amt == IF split THEN CgstAmt(tax_amt) ELSE 0
        sgst_amt == IF split THEN SgstAmt(tax_amt, cgst_amt) ELSE 0
    IN  [line_taxable |-> Append(s.line_taxable, taxable),
         line_tax     |-> Append(s.line_tax, tax_amt),
         line_total   |-> Append(s.line_total, inclusive),
         cgst_amt     |-> Append(s.cgst_amt, cgst_amt),
         sgst_amt     |-> Append(s.sgst_amt, sgst_amt),
         total_igst   |-> IF GoesToIgst(is_non_gst, same_state)
                          THEN s.total_igst + tax_amt ELSE s.total_igst,
         total_cgst   |-> s.total_cgst + cgst_amt,
         total_sgst   |-> s.total_sgst + sgst_amt]

\* the locals after the first n iterations: one per way the halves resolve
RECURSIVE TaxLoop(_, _, _, _, _)
TaxLoop(amounts, taxrates, is_non_gst, same_state, n) ==
    IF n = 0 THEN {LoopStart}
    ELSE {LineStep(s, amounts[n], TaxRate(is_non_gst, taxrates, n),
                   is_non_gst, same_state, tie) :
            s \in TaxLoop(amounts, taxrates, is_non_gst, same_state, n - 1),
            tie \in TieChoice}

\* -------------------------------------------------------------- documents
NoDoc ==
    [bill_no |-> Absent, is_non_gst |-> FALSE, client_name |-> <<>>,
     client_gstin |-> <<>>, client_email |-> <<>>, my_gstin |-> <<>>,
     particulars |-> <<>>,
     qtys |-> <<>>, taxrates |-> <<>>, amounts |-> <<>>,
     sub_total |-> 0, igst |-> 0, cgst |-> 0, sgst |-> 0, grand_total |-> 0,
     line_tax_amounts |-> <<>>, line_total_amounts |-> <<>>,
     is_credit_note |-> FALSE, original_invoice_no |-> Absent]

\* the invoice_data dict of handle_invoice.  Left out: the date, the
\* address, mobile, ship-to and PO fields, rates and hsns, which are copied
\* from the request and read by no computation.  is_credit_note FALSE and
\* original_invoice_no Absent stand for the keys the dict does not hold.
InvoiceData(r, bill_no, my_gstin, s) ==
    [bill_no |-> bill_no,
     is_non_gst |-> r.is_non_gst,
     client_name |-> Strip(r.client_name),
     client_gstin |-> r.client_gstin,
     client_email |-> r.client_email,
     my_gstin |-> my_gstin,
     particulars |-> StripAll(r.particulars),
     qtys |-> r.qtys,
     taxrates |-> r.taxrates,
     amounts |-> s.line_taxable,
     sub_total |-> Round2(SumSeq(s.line_taxable), FALSE),
     igst |-> Round2(s.total_igst, FALSE),
     cgst |-> Round2(s.total_cgst, FALSE),
     sgst |-> Round2(s.total_sgst, FALSE),
     grand_total |-> Round2(SumSeq(s.line_taxable) + s.total_igst
                            + s.total_cgst + s.total_sgst, FALSE),
     line_tax_amounts |-> s.line_tax,
     line_total_amounts |-> s.line_total,
     is_credit_note |-> FALSE,
     original_invoice_no |-> Absent]

\* mutant: the plain negation -x
Negated(x) == -x

\* -abs(x)
NegAbs(x) == -Abs(x)

NegAbsAll(xs) == [i \in 1..Len(xs) |-> NegAbs(xs[i])]

\* mutant: the back-reference is not written
CreditNoteDataNoReference(original_inv, new_cn_bill_no, bill_no) ==
    [original_inv EXCEPT
        !.bill_no = new_cn_bill_no,
        !.is_credit_note = TRUE,
        !.sub_total = NegAbs(original_inv.sub_total),
        !.igst = NegAbs(original_inv.igst),
        !.cgst = NegAbs(original_inv.cgst),
        !.sgst = NegAbs(original_inv.sgst),
        !.grand_total = NegAbs(original_inv.grand_total),
        !.qtys = NegAbsAll(original_inv.qtys),
        !.amounts = NegAbsAll(original_inv.amounts),
        !.line_tax_amounts = NegAbsAll(original_inv.line_tax_amounts),
        !.line_total_amounts = NegAbsAll(original_inv.line_total_amounts)]

\* the cn_data dict of generate_credit_note
CreditNoteData(original_inv, new_cn_bill_no, bill_no) ==
    [original_inv EXCEPT
        !.bill_no = new_cn_bill_no,
        !.original_invoice_no = bill_no,
        !.is_credit_note = TRUE,
        !.sub_total = NegAbs(original_inv.sub_total),
        !.igst = NegAbs(original_inv.igst),
        !.cgst = NegAbs(original_inv.cgst),
        !.sgst = NegAbs(original_inv.sgst),
        !.grand_total = NegAbs(original_inv.grand_total),
        !.qtys = NegAbsAll(original_inv.qtys),
        !.amounts = NegAbsAll(original_inv.amounts),
        !.line_tax_amounts = NegAbsAll(original_inv.line_tax_amounts),
        !.line_total_amounts = NegAbsAll(original_inv.line_total_amounts)]

\* ------------------------------------------------------- convert_to_words
units ==
    <<"One", "Two", "Three", "Four", "Five", "Six", "Seven", "Eight", "Nine", "Ten",
      "Eleven", "Twelve", "Thirteen", "Fourteen", "Fifteen", "Sixteen", "Seventeen",
      "Eighteen", "Nineteen">>

tens == <<"", "Twenty", "Thirty", "Forty", "Fifty", "Sixty", "Seventy", "Eighty", "Ninety">>

\* units[n], units[0] being ""
Unit(n) == IF n = 0 THEN "" ELSE units[n]

\* mutant: the tens and the units are joined by a hyphen
two_digit_hyphenated(n) ==
    IF n < 20 THEN Unit(n)
    ELSE tens[n \div 10] \o (IF n % 10 # 0 THEN "-" \o Unit(n % 10) ELSE "")

two_digit(n) ==
    IF n < 20 THEN Unit(n)
    ELSE tens[n \div 10] \o (IF n % 10 # 0 THEN " " \o Unit(n % 10) ELSE "")

three_digit(n) ==
    (IF n >= 100
     THEN Unit(n \div 100) \o " Hundred" \o (IF n % 100 # 0 THEN " " ELSE "")
     ELSE "")
    \o (IF n % 100 # 0 THEN two_digit(n % 100) ELSE "")

\* " ".join(parts)
RECURSIVE Join(_)
Join(parts) ==
    IF Len(parts) = 0 THEN ""
    ELSE IF Len(parts) = 1 THEN parts[1]
    ELSE parts[1] \o " " \o Join(Tail(parts))

\* convert_to_words(number) for a number of `p` paise (p >= 0 is
\* abs(number) * 100): n = int(abs(number)) is p \div 100 and
\* round((abs(number) - n) * 100) is p % 100
ConvertToWords(p) ==
    LET n        == p \div 100
        paise    == p % 100
        crore    == n \div 10000000
        lakh     == (n % 10000000) \div 100000
        thousand == (n % 100000) \div 1000
        hundred  == n % 1000
        parts    == (IF crore # 0 THEN <<three_digit(crore) \o " Crore">> ELSE <<>>)
                    \o (IF lakh # 0 THEN <<three_digit(lakh) \o " Lakh">> ELSE <<>>)
                    \o (IF thousand # 0 THEN <<three_digit(thousand) \o " Thousand">> ELSE <<>>)
                    \o (IF hundred # 0 THEN <<three_digit(hundred)>> ELSE <<>>)
        words    == IF Len(parts) > 0 THEN Join(parts) ELSE "Zero"
    IN  words \o (IF paise # 0 THEN " and " \o two_digit(paise) \o " Paise" ELSE "")
              \o " Only"

\* ---------------------------------------------------------- PDF_Generator
\* s.replace(old, new) for text old and new
RECURSIVE Replace(_, _, _)
Replace(s, old, new) ==
    IF Len(s) = 0 THEN s
    ELSE IF StartsWith(s, old) THEN new \o Replace(SubSeq(s, Len(old) + 1, Len(s)), old, new)
    ELSE <<s[1]>> \o Replace(Tail(s), old, new)

\* header_title
HeaderTitle(invoice_data, is_credit_note) ==
    IF is_credit_note THEN "CREDIT NOTE"
    ELSE IF invoice_data.is_non_gst THEN "BILL OF SUPPLY"
    ELSE "TAX INVOICE"

\* ref_bill of "This is a credit note against Invoice No: {ref_bill}"
RefBill(invoice_data) ==
    IF invoice_data.original_invoice_no # Absent /\ Len(invoice_data.original_invoice_no) > 0
    THEN invoice_data.original_invoice_no
    ELSE Replace(Replace(IF invoice_data.bill_no = Absent THEN <<>> ELSE invoice_data.bill_no,
                         <<"C", "N", "-">>, <<>>),
                 <<"T", "E", "-", "C", "N">>, <<"T", "E">>)

\* the row loop reads qtys[i], taxrates[i], amounts[i], line_tax_amounts[i]
\* and line_total_amounts[i] for every i of particulars: a shorter list
\* raises IndexError (rates and hsns, read the same way, are not modelled)
RenderRaises(invoice_data) ==
    \E i \in 1..Len(invoice_data.particulars) :
        \/ i > Len(invoice_data.qtys)
        \/ i > Len(invoice_data.taxrates)
        \/ i > Len(invoice_data.amounts)
        \/ i > Len(invoice_data.line_tax_amounts)
        \/ i > Len(invoice_data.line_total_amounts)

\* what PDF_Generator(invoice_data, is_credit_note) prints of the banner, the
\* reference line (Absent when there is none), the number, the grand total
\* (add_total prints abs(val)) and the amount in words
PDF_Generator(invoice_data, is_credit_note) ==
    [header_title |-> HeaderTitle(invoice_data, is_credit_note),
     reference    |-> IF is_credit_note THEN RefBill(invoice_data) ELSE Absent,
     bill_no      |-> invoice_data.bill_no,
     grand_total  |-> Abs(invoice_data.grand_total),
     words        |-> ConvertToWords(Abs(invoice_data.grand_total) \div 10)]

\* ------------------------------------------------------------------ state
VARIABLES
    profile,      \* config/seller_profile: [gstin, invoice_prefix]
    counters,     \* config/counters: [exists, counter, cn_counter]
    invoices,     \* the invoices collection: document id -> stored dict
    clients,      \* the clients collection: name -> [gstin]
    particulars,  \* the particulars collection: storage key -> [taxrate]
    pc,           \* where each handler stands
    req,          \* the request each handler serves
    snap,         \* the snapshot read by the handler's counter transaction
    attempt,      \* attempts of the handler's counter transaction
    counter_val,  \* the number get_next_counter returned to the handler
    found,        \* generate_credit_note: existing_cn or original_inv
    doc,          \* the dict the handler built (invoice_data / cn_data)
    calc,         \* handle_invoice: the locals of its tax loop
    resp,         \* the handler's last response: [status, bill_no]
    pdf,          \* the PDFs the handler rendered for its request, in order
    issued,       \* history: every number get_next_counter returned, in order
    cn_returned,  \* history: <<bill_no asked, bill_no returned>> of credit-note responses
    nreq          \* history: requests received

vars == <<profile, counters, invoices, clients, particulars, pc, req, snap,
          attempt, counter_val, found, doc, calc, resp, pdf, issued,
          cn_returned, nreq>>

store == <<profile, counters, invoices, clients, particulars>>

NoCounters == [exists |-> FALSE, counter |-> 0, cn_counter |-> 0]

\* unparsable: some element of amounts is text that float() does not take
NoRequest ==
    [op |-> "none", bill_no |-> <<>>, bill_nos |-> <<>>, auto_generate |-> TRUE,
     manual_bill_no |-> <<>>, is_non_gst |-> FALSE, client_name |-> <<>>,
     client_gstin |-> <<>>, client_email |-> <<>>, particulars |-> <<>>,
     qtys |-> <<>>, amounts |-> <<>>, taxrates |-> <<>>, unparsable |-> FALSE]

\* POST /generate-invoice with this JSON body
InvoiceRequest(auto_generate, manual_bill_no, is_non_gst, client_gstin, amounts, taxrates) ==
    [NoRequest EXCEPT
        !.op = "invoice",
        !.auto_generate = auto_generate,
        !.manual_bill_no = manual_bill_no,
        !.is_non_gst = is_non_gst,
        !.client_name = <<"C">>,
        !.client_gstin = client_gstin,
        !.client_email = <<"e">>,
        !.particulars = [i \in 1..Len(amounts) |-> <<"A">>],
        !.qtys = [i \in 1..Len(amounts) |-> 1],
        !.amounts = amounts,
        !.taxrates = taxrates]

\* GET /generate-credit-note/<bill_no>
CreditNoteRequest(bill_no) == [NoRequest EXCEPT !.op = "credit_note", !.bill_no = bill_no]

\* GET /download-invoice/<bill_no>
DownloadRequest(bill_no) == [NoRequest EXCEPT !.op = "download", !.bill_no = bill_no]

\* POST /download-zip with {"bill_nos": [...]}
ZipRequest(bill_nos) == [NoRequest EXCEPT !.op = "zip", !.bill_nos = bill_nos]

\* POST /email-invoice/<bill_no>
EmailRequest(bill_no) == [NoRequest EXCEPT !.op = "email", !.bill_no = bill_no]

NoResponse == [status |-> 0, bill_no |-> Absent]

Response(status, bill_no) == [status |-> status, bill_no |-> bill_no]

\* ------------------------------------------------------------ collections
\* load_invoices(): the stored dicts
BillNos(invs) == {invs[k].bill_no : k \in DOMAIN invs}

\* any(inv['bill_no'] == bill_no for inv in invoices)
BillNoTaken(invs, bill_no) == \E k \in DOMAIN invs : invs[k].bill_no = bill_no

\* next((inv for inv in invoices if ...), None) over the ids `ks` that match:
\* the first in the order of the stream
FirstOf(invs, ks) ==
    IF ks = {} THEN NoDoc
    ELSE invs[CHOOSE k \in ks : \A j \in ks \ {k} : StrLess(k, j)]

\* inv.get('original_invoice_no') == bill_no
ExistingByReference(invs, bill_no) ==
    FirstOf(invs, {k \in DOMAIN invs : invs[k].original_invoice_no = bill_no})

\* mutant: the first stored document, whatever its number
ByBillNoAny(invs, bill_no) == FirstOf(invs, DOMAIN invs)

\* inv['bill_no'] == bill_no
ByBillNo(invs, bill_no) ==
    FirstOf(invs, {k \in DOMAIN invs : invs[k].bill_no = bill_no})

\* existing_cn of generate_credit_note: by back-reference, else by the old
\* id f"CN-{bill_no}"
ExistingCn(invs, bill_no) ==
    IF ExistingByReference(invs, bill_no) # NoDoc
    THEN ExistingByReference(invs, bill_no)
    ELSE ByBillNo(invs, <<"C", "N", "-">> \o bill_no)

\* mutant: the document is not written
SaveNothing(invs, invoice_data) == invs

\* save_single_invoice(invoice_data)
SaveSingleInvoice(invs, invoice_data) == (DocId(invoice_data.bill_no) :> invoice_data) @@ invs

\* the particulars handle_invoice saves: storage key -> [taxrate]
ParticularKey(item_name, is_non_gst) ==
    IF is_non_gst THEN item_name \o <<"_", "N", "O", "N", "G", "S", "T">> ELSE item_name

RECURSIVE SaveParticulars(_, _, _)
SaveParticulars(dir, r, i) ==
    IF i > Len(r.particulars) THEN dir
    ELSE LET item_name == Strip(r.particulars[i])
             tax_val == IF r.is_non_gst THEN 0
                        ELSE IF i <= Len(r.taxrates) THEN r.taxrates[i] ELSE 0
             next == IF Len(item_name) = 0 THEN dir
                     ELSE (ParticularKey(item_name, r.is_non_gst) :> [taxrate |-> tax_val]) @@ dir
         IN  SaveParticulars(next, r, i + 1)

\* save_single_client(client_name, {...})
SaveClient(dir, r) ==
    IF Len(r.client_name) = 0 THEN dir
    ELSE (r.client_name :> [gstin |-> r.client_gstin]) @@ dir

\* ---------------------------------------------------- get_next_counter
Field(is_credit_note) == IF is_credit_note THEN "cn_counter" ELSE "counter"

\* current_val of update_in_transaction
CurrentVal(snapshot, is_credit_note) ==
    IF ~snapshot.exists THEN 0
    ELSE IF is_credit_note THEN snapshot.cn_counter ELSE snapshot.counter

\* mutant: the call that creates the counter record leaves the counter at 0
NewValCreated(snapshot, is_credit_note) ==
    IF ~snapshot.exists THEN 0 ELSE CurrentVal(snapshot, is_credit_note) + 1

\* new_val = current_val + 1
NewVal(snapshot, is_credit_note) == CurrentVal(snapshot, is_credit_note) + 1

\* the transaction's writes on the document as it stands at commit:
\* transaction.set (when the snapshot did not exist), transaction.update
TxnWrites(current, snapshot, is_credit_note) ==
    LET base == IF ~snapshot.exists
                THEN [exists |-> TRUE, counter |-> 0, cn_counter |-> 0]
                ELSE current
    IN  IF is_credit_note
        THEN [base EXCEPT !.cn_counter = NewVal(snapshot, is_credit_note)]
        ELSE [base EXCEPT !.counter = NewVal(snapshot, is_credit_note)]

\* mutant: the read, the increment and the write without a transaction
TxnCanCommitUnchecked(snapshot, current) == TRUE

\* @firestore.transactional: the commit goes through only if the document
\* read in the transaction has not been written since
TxnCanCommit(snapshot, current) == snapshot = current

\* --------------------------------------------------------- handle_invoice
Set(f, p, v) == [f EXCEPT ![p] = v]

\* a request reaches an idle handler
Begin(p, r) ==
    /\ pc[p] = "idle"
    /\ nreq < MaxRequests
    /\ nreq' = nreq + 1
    /\ req' = Set(req, p, r)
    /\ pc' = Set(pc, p, CASE r.op = "invoice" -> "save_directories"
                           [] r.op = "credit_note" -> "load"
                           [] OTHER -> r.op)
    /\ snap' = Set(snap, p, NoCounters)
    /\ attempt' = Set(attempt, p, 0)
    /\ counter_val' = Set(counter_val, p, 0)
    /\ found' = Set(found, p, NoDoc)
    /\ doc' = Set(doc, p, NoDoc)
    /\ calc' = Set(calc, p, LoopStart)
    /\ resp' = Set(resp, p, NoResponse)
    /\ pdf' = Set(pdf, p, <<>>)
    /\ UNCHANGED <<store, issued, cn_returned>>

\* the handler answers and is idle again
Answer(p, status, bill_no) ==
    /\ pc' = Set(pc, p, "idle")
    /\ resp' = Set(resp, p, Response(status, bill_no))

\* "Save Particulars & Client"
SaveDirectories(p) ==
    /\ pc[p] = "save_directories"
    /\ particulars' = SaveParticulars(particulars, req[p], 1)
    /\ clients' = SaveClient(clients, [req[p] EXCEPT !.client_name = Strip(@)])
    /\ pc' = Set(pc, p, "number")
    /\ UNCHANGED <<profile, counters, invoices, req, snap, attempt, counter_val,
                   found, doc, calc, resp, pdf, issued, cn_returned, nreq>>

\* mutant: the manual number is taken as sent, blanks included
BillNoUnstripped(p) ==
    IF req[p].auto_generate THEN InvoiceBillNo(profile, counter_val[p])
    ELSE req[p].manual_bill_no

\* bill_no of handle_invoice
BillNo(p) ==
    IF req[p].auto_generate THEN InvoiceBillNo(profile, counter_val[p])
    ELSE Strip(req[p].manual_bill_no)

\* "if auto_generate: ... else: ..." up to the duplicate check
AssignNumber(p) ==
    /\ pc[p] = "number"
    /\ IF req[p].auto_generate
       THEN /\ pc' = Set(pc, p, "txn_read")
            /\ UNCHANGED resp
       ELSE IF BillNoTaken(invoices, BillNo(p))
            THEN Answer(p, 409, Absent)
            ELSE /\ pc' = Set(pc, p, "build")
                 /\ UNCHANGED resp
    /\ UNCHANGED <<store, req, snap, attempt, counter_val, found, doc, calc, pdf,
                   issued, cn_returned, nreq>>

\* snapshot = doc_ref.get(transaction=transaction)
TxnRead(p) ==
    /\ pc[p] = "txn_read"
    /\ snap' = Set(snap, p, counters)
    /\ attempt' = Set(attempt, p, attempt[p] + 1)
    /\ pc' = Set(pc, p, "txn_commit")
    /\ UNCHANGED <<store, req, counter_val, found, doc, calc, resp, pdf,
                   issued, cn_returned, nreq>>

\* the commit of update_in_transaction; a commit that is refused runs the
\* function again
TxnCommit(p) ==
    /\ pc[p] = "txn_commit"
    /\ LET is_credit_note == req[p].op = "credit_note" IN
       IF TxnCanCommit(snap[p], counters)
       THEN /\ counters' = TxnWrites(counters, snap[p], is_credit_note)
            /\ counter_val' = Set(counter_val, p, NewVal(snap[p], is_credit_note))
            /\ issued' = Append(issued, [field |-> Field(is_credit_note),
                                         val |-> NewVal(snap[p], is_credit_note),
                                         bill_no |-> req[p].bill_no])
            /\ pc' = Set(pc, p, IF is_credit_note THEN "save_cn" ELSE "build")
       ELSE /\ pc' = Set(pc, p, "txn_read")
            /\ UNCHANGED <<counters, counter_val, issued>>
    /\ UNCHANGED <<profile, invoices, clients, particulars, req, snap, attempt,
                   found, doc, calc, resp, pdf, cn_returned, nreq>>

\* .document(doc_id).set(...) with an empty doc_id: what the store does with
\* it is not the program's to say - it takes the write, or it raises
SetOutcomes(doc_id) == IF Len(doc_id) = 0 THEN {"written", "raised"} ELSE {"written"}

\* the tax loop, invoice_data and save_single_invoice(invoice_data); float()
\* of an amount that is no number raises in the loop, and every exception of
\* the handler is answered 500
BuildAndSave(p) ==
    /\ pc[p] = "build"
    /\ LET r == req[p]
           my_gstin == profile.gstin
           same_state == SameState(r.client_gstin, my_gstin)
       IN  IF r.unparsable
           THEN /\ Answer(p, 500, Absent)
                /\ UNCHANGED <<calc, doc, invoices>>
           ELSE \E s \in TaxLoop(r.amounts, r.taxrates, r.is_non_gst, same_state,
                                 Len(r.amounts)) :
                \E outcome \in SetOutcomes(DocId(BillNo(p))) :
                  /\ calc' = Set(calc, p, s)
                  /\ doc' = Set(doc, p, InvoiceData(r, BillNo(p), my_gstin, s))
                  /\ IF outcome = "written"
                     THEN /\ invoices' = SaveSingleInvoice(invoices,
                                             InvoiceData(r, BillNo(p), my_gstin, s))
                          /\ pc' = Set(pc, p, "render")
                          /\ UNCHANGED resp
                     ELSE /\ Answer(p, 500, Absent)
                          /\ UNCHANGED invoices
    /\ UNCHANGED <<profile, counters, clients, particulars, req, snap, attempt,
                   counter_val, found, pdf, issued, cn_returned, nreq>>

\* PDF_Generator(invoice_data) and send_file, or the 500 of the except
\* clause when PDF_Generator raises
RenderInvoice(p) ==
    /\ pc[p] = "render"
    /\ IF RenderRaises(doc[p])
       THEN /\ Answer(p, 500, Absent)
            /\ UNCHANGED pdf
       ELSE /\ Answer(p, 200, doc[p].bill_no)
            /\ pdf' = Set(pdf, p, <<PDF_Generator(doc[p], FALSE)>>)
    /\ UNCHANGED <<store, req, snap, attempt, counter_val, found, doc, calc,
                   issued, cn_returned, nreq>>

\* --------------------------------------------------- generate_credit_note
\* load_invoices() and the three lookups over the list it returned
LookupCreditNote(p) ==
    /\ pc[p] = "load"
    /\ LET bill_no == req[p].bill_no
           existing_cn == ExistingCn(invoices, bill_no)
           original_inv == ByBillNo(invoices, bill_no)
       IN  IF existing_cn # NoDoc
           THEN /\ found' = Set(found, p, existing_cn)
                /\ pc' = Set(pc, p, "render_existing")
                /\ UNCHANGED resp
           ELSE IF original_inv = NoDoc
           THEN /\ Answer(p, 404, Absent)
                /\ UNCHANGED found
           ELSE /\ found' = Set(found, p, original_inv)
                /\ pc' = Set(pc, p, "txn_read")
                /\ UNCHANGED resp
    /\ UNCHANGED <<store, req, snap, attempt, counter_val, doc, calc, pdf, issued,
                   cn_returned, nreq>>

\* cn_data and save_single_invoice(cn_data)
SaveCreditNote(p) ==
    /\ pc[p] = "save_cn"
    /\ LET cn_data == CreditNoteData(found[p], CreditNoteBillNo(profile, counter_val[p]),
                                     req[p].bill_no)
       IN  /\ doc' = Set(doc, p, cn_data)
           /\ invoices' = SaveSingleInvoice(invoices, cn_data)
    /\ pc' = Set(pc, p, "render_cn")
    /\ UNCHANGED <<profile, counters, clients, particulars, req, snap, attempt,
                   counter_val, found, calc, resp, pdf, issued, cn_returned, nreq>>

\* PDF_Generator(existing_cn | cn_data, is_credit_note=True) and send_file,
\* or the 500 of the except clause when PDF_Generator raises
RenderCreditNote(p) ==
    /\ pc[p] \in {"render_existing", "render_cn"}
    /\ LET rendered == IF pc[p] = "render_existing" THEN found[p] ELSE doc[p]
       IN  IF RenderRaises(rendered)
           THEN /\ Answer(p, 500, Absent)
                /\ UNCHANGED <<pdf, cn_returned>>
           ELSE /\ Answer(p, 200, rendered.bill_no)
                /\ pdf' = Set(pdf, p, <<PDF_Generator(rendered, TRUE)>>)
                /\ cn_returned' = cn_returned \cup {<<req[p].bill_no, rendered.bill_no>>}
    /\ UNCHANGED <<store, req, snap, attempt, counter_val, found, doc, calc,
                   issued, nreq>>

\* -------------------------------- download_invoice, download_zip, email_invoice
\* GET /download-invoice/<bill_no>: an exception is the framework's 500
DownloadInvoice(p) ==
    /\ pc[p] = "download"
    /\ LET invoice_data == ByBillNo(invoices, req[p].bill_no)
       IN  IF invoice_data = NoDoc
           THEN /\ Answer(p, 404, Absent)
                /\ UNCHANGED pdf
           ELSE IF RenderRaises(invoice_data)
           THEN /\ Answer(p, 500, Absent)
                /\ UNCHANGED pdf
           ELSE /\ Answer(p, 200, req[p].bill_no)
                /\ pdf' = Set(pdf, p, <<PDF_Generator(invoice_data, FALSE)>>)
    /\ UNCHANGED <<store, req, snap, attempt, counter_val, found, doc, calc,
                   issued, cn_returned, nreq>>

\* the documents of all_invoices that download_zip renders, in the order of
\* bill_nos
RECURSIVE ZipDocs(_, _)
ZipDocs(invs, bill_nos) ==
    IF Len(bill_nos) = 0 THEN <<>>
    ELSE (IF ByBillNo(invs, bill_nos[1]) = NoDoc THEN <<>>
          ELSE <<ByBillNo(invs, bill_nos[1])>>)
         \o ZipDocs(invs, Tail(bill_nos))

\* POST /download-zip
DownloadZip(p) ==
    /\ pc[p] = "zip"
    /\ LET docs == ZipDocs(invoices, req[p].bill_nos)
       IN  IF Len(req[p].bill_nos) = 0
           THEN /\ Answer(p, 400, Absent)
                /\ UNCHANGED pdf
           ELSE IF \E i \in 1..Len(docs) : RenderRaises(docs[i])
           THEN /\ Answer(p, 500, Absent)
                /\ UNCHANGED pdf
           ELSE /\ Answer(p, 200, Absent)
                /\ pdf' = Set(pdf, p, [i \in 1..Len(docs) |->
                                          PDF_Generator(docs[i], docs[i].is_credit_note)])
    /\ UNCHANGED <<store, req, snap, attempt, counter_val, found, doc, calc,
                   issued, cn_returned, nreq>>

\* POST /email-invoice/<bill_no>; the mail goes out, or smtplib raises
EmailInvoice(p) ==
    /\ pc[p] = "email"
    /\ LET inv == ByBillNo(invoices, req[p].bill_no)
       IN  IF inv = NoDoc
           THEN /\ Answer(p, 404, Absent)
                /\ UNCHANGED pdf
           ELSE IF Len(inv.client_email) = 0
           THEN /\ Answer(p, 400, Absent)
                /\ UNCHANGED pdf
           ELSE IF RenderRaises(inv)
           THEN /\ Answer(p, 500, Absent)
                /\ UNCHANGED pdf
           ELSE /\ pdf' = Set(pdf, p, <<PDF_Generator(inv, inv.is_credit_note)>>)
                /\ \E sent \in BOOLEAN :
                      Answer(p, IF sent THEN 200 ELSE 500, Absent)
    /\ UNCHANGED <<store, req, snap, attempt, counter_val, found, doc, calc,
                   issued, cn_returned, nreq>>

\* ------------------------------------------------------------ the requests
\* get_seller_profile_data() when no profile is stored
DefaultProfile == Profile(<<>>, <<"S", "M", "T">>)

SellerProfiles ==
    {DefaultProfile,
     Profile(<<"0", "6", "Z">>, <<"s", "m", "t">>),
     Profile(<<"0", "7", "Z">>, Absent),
     Profile(<<"0">>, <<"S", "M", "T">>)}

ClientGstins == {<<>>, <<"0", "6", "A">>, <<"0", "7", "B">>}

\* inclusive amounts, in mills: 1180.00, 2.63, -118.00, 1.004
Amounts == {1180000, 2630, -118000, 1004}

Rates == {0, 5, 18}

AmountLists == UNION {[1..n -> Amounts] : n \in 0..MaxLines}

\* the tax rates sent with n amounts: one per amount, or none at all
RateLists(n) == [1..n -> Rates] \cup {<<>>}

FirstInvoiceNo == <<"S", "M", "T", "/">> \o FY \o <<"/", "0", "0", "0", "1">>

FirstCreditNoteNo == <<"S", "M", "T", "-", "C", "N", "/">> \o FY \o <<"/", "0", "0", "0", "1">>

\* the invoice requests of Spec: one numbered by the counter, two with a
\* manual number: the first automatic number followed by a blank (exempt,
\* sent without tax rates), and the first credit-note number
Requests ==
    {InvoiceRequest(TRUE, <<>>, FALSE, <<"0", "6", "A">>, <<1180000>>, <<18>>),
     InvoiceRequest(FALSE, FirstInvoiceNo \o <<" ">>, TRUE, <<>>, <<2630>>, <<>>),
     InvoiceRequest(FALSE, FirstCreditNoteNo, FALSE, <<"0", "7", "B">>, <<2630>>, <<5>>)}

\* the bill numbers a credit note is asked for: the stored ones and one that
\* is not stored
CreditNoteTargets == BillNos(invoices) \cup {<<"X", "1">>}

\* the invoice requests of SpecSeq: those of Spec, a manual request whose
\* number is blank, one whose number is "CN-" and the number that is not
\* stored, and one to number automatically with an amount that is no number
RequestsSeq ==
    Requests \cup
    {InvoiceRequest(FALSE, <<" ">>, FALSE, <<"0", "6", "A">>, <<1180000>>, <<18>>),
     InvoiceRequest(FALSE, <<"C", "N", "-", "X", "1">>, FALSE, <<>>, <<1180000>>, <<18>>),
     [InvoiceRequest(TRUE, <<>>, FALSE, <<"0", "6", "A">>, <<1180000>>, <<18>>)
         EXCEPT !.unparsable = TRUE]}

\* inclusive amounts of SpecRender, in mills: 0, 0.05, 19.00, 20.00, 21.50,
\* 99.99, 100.00, 101.10, 999.00, 1000.00, 1001.00, 20000.00, 100000.00,
\* 100001.00, 1234567.89, 2000000.00 and -1180.00
WordAmounts ==
    {0, 50, 19000, 20000, 21500, 99990, 100000, 101100, 999000, 1000000, 1001000,
     20000000, 100000000, 100001000, 1234567890, 2000000000, -1180000}

\* the invoice requests of SpecRender: one line at 18 %, exempt or not, with
\* or without the buyer's e-mail address
RenderRequests ==
    {[InvoiceRequest(TRUE, <<>>, g, <<>>, <<a>>, <<18>>) EXCEPT !.client_email = e] :
        g \in BOOLEAN, a \in WordAmounts, e \in {<<>>, <<"e">>}}

\* the bill_nos of a download-zip request: none, one, or two different ones
ZipLists ==
    {<<>>} \cup {<<b>> : b \in CreditNoteTargets}
           \cup {<<b[1], b[2]>> : b \in {x \in CreditNoteTargets \X CreditNoteTargets : x[1] # x[2]}}

\* --------------------------------------------------------- specifications
Idle(r) ==
    /\ counters = NoCounters
    /\ invoices = <<>>
    /\ clients = <<>>
    /\ particulars = <<>>
    /\ req = [p \in Procs |-> IF p = 1 THEN r ELSE NoRequest]
    /\ pc = [p \in Procs |-> IF p = 1 /\ r.op = "invoice" THEN "save_directories" ELSE "idle"]
    /\ snap = [p \in Procs |-> NoCounters]
    /\ attempt = [p \in Procs |-> 0]
    /\ counter_val = [p \in Procs |-> 0]
    /\ found = [p \in Procs |-> NoDoc]
    /\ doc = [p \in Procs |-> NoDoc]
    /\ calc = [p \in Procs |-> LoopStart]
    /\ resp = [p \in Procs |-> NoResponse]
    /\ pdf = [p \in Procs |-> <<>>]
    /\ issued = <<>>
    /\ cn_returned = {}
    /\ nreq = IF r.op = "invoice" THEN 1 ELSE 0

\* the handlers are idle, nothing is stored
Init ==
    /\ profile = DefaultProfile
    /\ Idle(NoRequest)

\* the steps of the endpoints that only read the store
ReadStep(p) ==
    \/ DownloadInvoice(p)
    \/ DownloadZip(p)
    \/ EmailInvoice(p)

Step(p) ==
    \/ SaveDirectories(p)
    \/ AssignNumber(p)
    \/ TxnRead(p)
    \/ TxnCommit(p)
    \/ BuildAndSave(p)
    \/ RenderInvoice(p)
    \/ LookupCreditNote(p)
    \/ SaveCreditNote(p)
    \/ RenderCreditNote(p)

\* requests of any kind reach the handlers, which run concurrently
Next ==
    \E p \in Procs :
        \/ \E r \in Requests : Begin(p, r)
        \/ \E b \in CreditNoteTargets : Begin(p, CreditNoteRequest(b))
        \/ Step(p)

Spec == Init /\ [][Next]_vars

\* the same requests, served one after the other by one handler
NextSeq ==
    \/ \E r \in RequestsSeq : Begin(1, r)
    \/ \E b \in CreditNoteTargets : Begin(1, CreditNoteRequest(b))
    \/ Step(1)

SpecSeq == Init /\ [][NextSeq]_vars

\* one handler has received an invoice request to number automatically,
\* exempt or not, with any of ClientGstins, AmountLists and RateLists, under
\* any of SellerProfiles
InitTax ==
    /\ profile \in SellerProfiles
    /\ \E g \in BOOLEAN, c \in ClientGstins, a \in AmountLists :
          \E t \in RateLists(Len(a)) :
             Idle(InvoiceRequest(TRUE, <<>>, g, c, a, t))

\* the handler serves it, and then one request for its credit note
NextTax ==
    \/ \E b \in BillNos(invoices) : nreq = 1 /\ Begin(1, CreditNoteRequest(b))
    \/ Step(1)

SpecTax == InitTax /\ [][NextTax]_vars

\* one handler has received an invoice request of RenderRequests
InitRender ==
    /\ profile = DefaultProfile
    /\ \E r \in RenderRequests : Idle(r)

\* the handler serves it, and then requests for the credit note of a stored
\* document and requests to download, zip and mail stored documents
NextRender ==
    \/ \E b \in CreditNoteTargets :
          \/ Begin(1, CreditNoteRequest(b))
          \/ Begin(1, DownloadRequest(b))
          \/ Begin(1, EmailRequest(b))
    \/ \E bs \in ZipLists : Begin(1, ZipRequest(bs))
    \/ Step(1)
    \/ ReadStep(1)

SpecRender == InitRender /\ [][NextRender]_vars

\* ------------------------------------------------------------------ claims
IssuedOf(field) ==
    LET OfField(e) == e.field = field IN SelectSeq(issued, OfField)

\* C1: under every interleaving of concurrent get_next_counter calls, the
\* numbers returned for one series are 1, 2, ..., N in the order of their
\* commits - pairwise distinct, no gap, no repeat - and the stored counter
\* of the series is N.
C1_ConsecutiveNumbers ==
    \A is_credit_note \in BOOLEAN :
        LET got == IssuedOf(Field(is_credit_note))
        IN  /\ \A i \in 1..Len(got) : got[i].val = i
            /\ CurrentVal(counters, is_credit_note) = Len(got)

\* two handlers were in the transaction of one series at once: one had to
\* run it again and got 2, the other got 1
C1_Witness ==
    \E p, q \in Procs :
        /\ p # q
        /\ req[p].op = req[q].op
        /\ attempt[p] >= 2
        /\ counter_val[p] = 2
        /\ counter_val[q] = 1

\* C2: a second generate_credit_note for an original whose credit note was
\* already returned gives the same credit-note bill number, and no step of
\* it changes the counters or the invoices collection.
C2_CreditNoteIdempotent ==
    [][/\ \A x, y \in cn_returned' : x[1] = y[1] => x[2] = y[2]
       /\ (/\ req[1].op = "credit_note"
           /\ pc[1] # "idle"
           /\ \E x \in cn_returned : x[1] = req[1].bill_no)
          => (counters' = counters /\ invoices' = invoices)]_vars

\* the second call has found the credit note the first one stored
C2_Witness ==
    /\ pc[1] = "render_existing"
    /\ \E x \in cn_returned : x[1] = req[1].bill_no /\ x[2] = found[1].bill_no
    /\ counters.cn_counter = 1

\* C3: under every interleaving of concurrent generate_credit_note requests
\* for one original, at most one stored document refers to that original
\* and at most one credit-note number was consumed for it.
C3_OneCreditNotePerOriginal ==
    \A b \in BillNos(invoices) :
        /\ Cardinality({k \in DOMAIN invoices : invoices[k].original_invoice_no = b}) <= 1
        /\ Cardinality({i \in 1..Len(issued) :
                            issued[i].field = "cn_counter" /\ issued[i].bill_no = b}) <= 1

\* C4: a handler that checks a manual bill number equal to the bill number
\* of a stored document answers 409 and is done, leaving invoices and
\* counters as they are; a manual request never enters the counter
\* transaction.
C4_DuplicateManualRejected ==
    [][\A p \in Procs :
          /\ (req[p].op = "invoice" /\ ~req[p].auto_generate)
                => pc[p] \notin {"txn_read", "txn_commit"}
          /\ (/\ pc[p] = "number"
              /\ pc'[p] # "number"
              /\ ~req[p].auto_generate
              /\ \E k \in DOMAIN invoices :
                    invoices[k].bill_no = Strip(req[p].manual_bill_no))
             => (/\ resp'[p] = Response(409, Absent)
                 /\ pc'[p] = "idle"
                 /\ invoices' = invoices
                 /\ counters' = counters)]_vars

\* a manual request was answered 409 while its number is stored
C4_Witness ==
    \E p \in Procs :
        /\ ~req[p].auto_generate
        /\ resp[p].status = 409
        /\ Strip(req[p].manual_bill_no) \in BillNos(invoices)

\* the stored documents that handle_invoice built
InvoiceDocs == {d \in {invoices[k] : k \in DOMAIN invoices} : ~d.is_credit_note}

StoredDocs == {invoices[k] : k \in DOMAIN invoices}

Count(b) == IF b THEN 1 ELSE 0

\* C5 as claimed: exactly one of {igst > 0}, {cgst > 0 and sgst > 0},
\* {igst = cgst = sgst = 0 and exempt} holds for every document that
\* handle_invoice built.
C5_ExactlyOneRegime ==
    \A d \in InvoiceDocs :
        Count(d.igst > 0)
        + Count(d.cgst > 0 /\ d.sgst > 0)
        + Count(d.igst = 0 /\ d.cgst = 0 /\ d.sgst = 0 /\ d.is_non_gst) = 1

\* C5 as amended: for every document that handle_invoice built, at most one
\* of the three regimes holds - igst and cgst/sgst are never both non-zero -
\* and an exempt document is in the third (all three taxes zero).
C5_AtMostOneRegime ==
    \A d \in InvoiceDocs :
        /\ Count(d.igst > 0)
           + Count(d.cgst > 0 /\ d.sgst > 0)
           + Count(d.igst = 0 /\ d.cgst = 0 /\ d.sgst = 0 /\ d.is_non_gst) <= 1
        /\ ~(d.igst # 0 /\ (d.cgst # 0 \/ d.sgst # 0))
        /\ d.is_non_gst => (d.igst = 0 /\ d.cgst = 0 /\ d.sgst = 0)

\* a same-state document with both halves, none of it IGST, was stored
C5_Witness ==
    \E d \in InvoiceDocs : d.cgst > 0 /\ d.sgst > 0 /\ d.igst = 0 /\ Len(d.amounts) = 2

\* C6: every stored document, invoice or credit note, has
\* grand_total = round(sub_total + igst + cgst + sgst, 2).
C6_GrandTotal ==
    \A d \in StoredDocs :
        d.grand_total = Round2(d.sub_total + d.igst + d.cgst + d.sgst, FALSE)

\* the lines of handler p that went through the CGST/SGST split
SplitLines(p) ==
    IF /\ req[p].op = "invoice"
       /\ ~req[p].is_non_gst
       /\ StartsWith(req[p].client_gstin,
                     IF profile.gstin = <<>> THEN <<"0", "6">> ELSE Take(profile.gstin, 2))
    THEN 1..Len(calc[p].line_tax)
    ELSE {}

\* C7: on every line of a same-state, non-exempt document cgst_amt is
\* tax_amt/2 rounded to 2 places (a multiple of 0.01 within 0.005 of the
\* half), sgst_amt takes the remainder, so that cgst_amt + sgst_amt is
\* tax_amt exactly and the two differ by at most 0.01.
C7_LineSplit ==
    \A p \in Procs : \A i \in SplitLines(p) :
        LET tax_amt  == calc[p].line_tax[i]
            cgst_amt == calc[p].cgst_amt[i]
            sgst_amt == calc[p].sgst_amt[i]
        IN  /\ cgst_amt % 10 = 0
            /\ Abs(2 * cgst_amt - tax_amt) <= 10
            /\ cgst_amt + sgst_amt = tax_amt
            /\ Abs(cgst_amt - sgst_amt) <= 10

\* a line whose tax is an odd number of paise was split: the halves differ
C7_Witness ==
    \E p \in Procs : \E i \in SplitLines(p) :
        /\ calc[p].line_tax[i] % 20 = 10
        /\ calc[p].cgst_amt[i] # calc[p].sgst_amt[i]

\* the tax rate of line i of the request that built the stored invoice d
RateOfLine(d, i) ==
    IF d.is_non_gst THEN 0 ELSE IF i <= Len(d.taxrates) THEN d.taxrates[i] ELSE 0

\* C8: on every line of a document that handle_invoice built, the taxable
\* value is inclusive / (1 + rate/100) rounded to 2 places, the tax is
\* inclusive - taxable rounded to 2 places, the stored line total is the
\* inclusive amount of the request, and taxable + tax is within 0.01 of it.
C8_LineBreakdown ==
    \A p \in Procs :
        (req[p].op = "invoice" /\ doc[p] # NoDoc) =>
            /\ doc[p].line_total_amounts = req[p].amounts
            /\ doc[p] \in InvoiceDocs => \A i \in 1..Len(doc[p].amounts) :
                  LET inclusive == doc[p].line_total_amounts[i]
                      taxable   == doc[p].amounts[i]
                      tax       == doc[p].line_tax_amounts[i]
                      rate      == RateOfLine(doc[p], i)
                  IN  /\ taxable % 10 = 0
                      /\ tax % 10 = 0
                      /\ Abs(taxable * (100 + rate) - inclusive * 100) <= 5 * (100 + rate)
                      /\ Abs(tax - (inclusive - taxable)) <= 5
                      /\ Abs(taxable + tax - inclusive) <= 10

\* a line with a taxed amount that is no whole number of paise was stored:
\* taxable + tax is not the inclusive amount
C8_Witness ==
    \E d \in InvoiceDocs : \E i \in 1..Len(d.amounts) :
        /\ RateOfLine(d, i) > 0
        /\ d.amounts[i] + d.line_tax_amounts[i] # d.line_total_amounts[i]

\* C9 as claimed: the aggregate CGST and SGST of every document are equal
\* in magnitude.
C9_EqualHalves == \A d \in StoredDocs : Abs(d.cgst) = Abs(d.sgst)

\* C9 as amended: the aggregate CGST and SGST of every document differ in
\* magnitude by at most 0.01 per line item, and are equal when every line's
\* tax is an even number of paise.
C9_HalvesWithinLines ==
    \A d \in StoredDocs :
        /\ Abs(Abs(d.cgst) - Abs(d.sgst)) <= 10 * Len(d.amounts)
        /\ (\A i \in 1..Len(d.line_tax_amounts) : d.line_tax_amounts[i] % 20 = 0)
              => Abs(d.cgst) = Abs(d.sgst)

\* a credit note of two lines whose halves differ was stored
C9_Witness ==
    \E d \in StoredDocs :
        d.is_credit_note /\ d.cgst # d.sgst /\ d.cgst # 0 /\ Len(d.amounts) = 2

\* the taxes of d for a claimed same-state verdict: CGST+SGST take the
\* whole line tax when same_state, IGST takes it otherwise
TaxGoesWhere(d, same_state) ==
    IF same_state
    THEN d.igst = 0 /\ d.cgst + d.sgst = SumSeq(d.line_tax_amounts)
    ELSE d.cgst = 0 /\ d.sgst = 0 /\ d.igst = SumSeq(d.line_tax_amounts)

\* inclusive 1180.00 at 18 %: cgst 90.00 and sgst 90.00, or igst 180.00
Example1180(d, same_state) ==
    (d.line_total_amounts = <<1180000>> /\ d.taxrates = <<18>>) =>
        /\ d.amounts = <<1000000>>
        /\ d.line_tax_amounts = <<180000>>
        /\ IF same_state
           THEN d.cgst = 90000 /\ d.sgst = 90000 /\ d.igst = 0
           ELSE d.cgst = 0 /\ d.sgst = 0 /\ d.igst = 180000

\* C10 as claimed: a non-exempt document is same-state exactly when the
\* first 2 characters of the buyer's id equal the first 2 characters of the
\* seller's id, a blank buyer id never being same-state.
C10_SameStateByBothPrefixes ==
    \A d \in {e \in InvoiceDocs : ~e.is_non_gst} :
        LET same_state == /\ Strip(d.client_gstin) # <<>>
                          /\ Take(d.client_gstin, 2) = Take(d.my_gstin, 2)
        IN  TaxGoesWhere(d, same_state) /\ Example1180(d, same_state)

\* C10 as amended: a non-exempt document is same-state exactly when the
\* buyer's id starts with the seller's state code - the first 2 characters
\* of the seller's id, or "06" when the seller has no id; a blank buyer id
\* is never same-state.
C10_SameStateByStateCode ==
    \A d \in {e \in InvoiceDocs : ~e.is_non_gst} :
        LET code == IF d.my_gstin = <<>> THEN <<"0", "6">>
                    ELSE SubSeq(d.my_gstin, 1, IF Len(d.my_gstin) < 2 THEN Len(d.my_gstin) ELSE 2)
            same_state == /\ Len(d.client_gstin) >= Len(code)
                          /\ SubSeq(d.client_gstin, 1, Len(code)) = code
        IN  /\ TaxGoesWhere(d, same_state)
            /\ Example1180(d, same_state)
            /\ d.client_gstin = <<>> => ~same_state

\* the example was stored same-state for a seller without an id
C10_Witness ==
    \E d \in InvoiceDocs :
        /\ ~d.is_non_gst
        /\ d.my_gstin = <<>>
        /\ d.line_total_amounts = <<1180000>>
        /\ d.taxrates = <<18>>
        /\ d.cgst = 90000

\* the stored documents that handle_invoice built as exempt
ExemptDocs == {d \in InvoiceDocs : d.is_non_gst}

\* C11 as claimed: on an exempt document every line's taxable value is its
\* inclusive amount and its tax is 0, igst, cgst and sgst are 0 and
\* grand_total = sub_total = the sum of the inclusive amounts.
C11_ExemptTaxableIsInclusive ==
    \A d \in ExemptDocs :
        /\ \A i \in 1..Len(d.amounts) :
              d.amounts[i] = d.line_total_amounts[i] /\ d.line_tax_amounts[i] = 0
        /\ d.igst = 0 /\ d.cgst = 0 /\ d.sgst = 0
        /\ d.grand_total = d.sub_total
        /\ d.sub_total = SumSeq(d.line_total_amounts)

\* C11 as amended: on an exempt document, whatever the rates supplied and
\* the buyer's state, igst, cgst and sgst are 0 and grand_total = sub_total
\* = the sum of the taxable values rounded to 2 places; every line's taxable
\* value is its inclusive amount rounded to 2 places, so it is the inclusive
\* amount, with a tax of 0, where that amount is a whole number of paise.
C11_ExemptTaxableIsRounded ==
    \A d \in ExemptDocs :
        /\ d.igst = 0 /\ d.cgst = 0 /\ d.sgst = 0
        /\ d.grand_total = d.sub_total
        /\ d.sub_total = 10 * ((SumSeq(d.amounts) + 5) \div 10)
        /\ \A i \in 1..Len(d.amounts) :
              /\ d.amounts[i] % 10 = 0
              /\ Abs(d.amounts[i] - d.line_total_amounts[i]) <= 5
              /\ Abs(d.line_tax_amounts[i] - (d.line_total_amounts[i] - d.amounts[i])) <= 5
              /\ d.line_total_amounts[i] % 10 = 0
                    => (d.amounts[i] = d.line_total_amounts[i] /\ d.line_tax_amounts[i] = 0)

\* an exempt document was stored for a buyer of the seller's state with a
\* rate of 18 % supplied on its line of 1180.00
C11_Witness ==
    \E d \in ExemptDocs :
        /\ StartsWith(d.client_gstin, MyStateCode(d.my_gstin))
        /\ \E i \in 1..Len(d.amounts) :
              /\ i <= Len(d.taxrates)
              /\ d.taxrates[i] = 18
              /\ d.line_total_amounts[i] = 1180000
              /\ d.amounts[i] = 1180000

C13_MissingNumberRejected ==
    /\ <<>> \notin DOMAIN invoices
    /\ \A p \in Procs :
          (/\ req[p].op = "invoice"
           /\ ~req[p].auto_generate
           /\ Strip(req[p].manual_bill_no) = <<>>)
          => (pc[p] \notin {"build", "render"} /\ doc[p] = NoDoc)

\* handler p looks up a bill number that is the number of no stored
\* document and the back-reference of none
LooksUpUnknown(p) ==
    /\ pc[p] = "load"
    /\ pc'[p] # "load"
    /\ \A k \in DOMAIN invoices :
          /\ invoices[k].bill_no # req[p].bill_no
          /\ invoices[k].original_invoice_no # req[p].bill_no

\* the request of handler p ends with 404, no number consumed, no document
\* stored
NotFound(p) ==
    /\ resp'[p] = Response(404, Absent)
    /\ pc'[p] = "idle"
    /\ counters' = counters
    /\ issued' = issued
    /\ invoices' = invoices

\* C14 as claimed: generate_credit_note for a bill number that matches no
\* stored document, neither as its number nor as its back-reference, fails
\* with 404, consumes no credit-note number and stores no document.
C14_UnknownIs404 ==
    [][\A p \in Procs : LooksUpUnknown(p) => NotFound(p)]_vars

\* C14 as amended: generate_credit_note fails with 404 exactly when the bill
\* number is the number of no stored document, the back-reference of none,
\* and no stored document has the number "CN-" followed by it; it then
\* consumes no credit-note number and stores no document.
C14_UnknownAndNoLegacyIs404 ==
    [][\A p \in Procs :
          LET legacy == \E k \in DOMAIN invoices :
                           invoices[k].bill_no = <<"C", "N", "-">> \o req[p].bill_no
          IN  /\ (LooksUpUnknown(p) /\ ~legacy) => NotFound(p)
              /\ (pc[p] = "load" /\ resp'[p].status = 404) => (LooksUpUnknown(p) /\ ~legacy)
              /\ (LooksUpUnknown(p) /\ legacy) =>
                    (pc'[p] = "render_existing" /\ counters' = counters /\ invoices' = invoices)]_vars

\* a credit note was asked for a number that is not stored, next to stored
\* documents, and the answer was 404
C14_Witness ==
    \E p \in Procs :
        /\ req[p].op = "credit_note"
        /\ pc[p] = "idle"
        /\ resp[p].status = 404
        /\ req[p].bill_no \notin BillNos(invoices)
        /\ invoices # <<>>
        /\ issued = <<>>

\* handler p's call of get_next_counter returns in this step
CounterReturns(p) == pc[p] = "txn_commit" /\ pc'[p] \in {"build", "save_cn"}

\* C15: both counters are non-negative integers and are 0 until the record
\* exists; a get_next_counter call that returns advances the counter of the
\* series it was called for by exactly 1, also when it creates the record,
\* returns the new value and leaves the other series' counter as it is; the
\* counters change in no other step, so that none ever decreases.
C15_CounterAdvancesByOne ==
    [][/\ counters.counter \in Nat /\ counters.cn_counter \in Nat
       /\ ~counters.exists => (counters.counter = 0 /\ counters.cn_counter = 0)
       /\ counters'.counter >= counters.counter
       /\ counters'.cn_counter >= counters.cn_counter
       /\ counters' # counters => \E p \in Procs : CounterReturns(p)
       /\ \A p \in Procs : CounterReturns(p) =>
             /\ counters'.exists
             /\ IF req[p].op = "credit_note"
                THEN /\ counters'.cn_counter = counters.cn_counter + 1
                     /\ counters'.counter = counters.counter
                     /\ counter_val'[p] = counters'.cn_counter
                ELSE /\ counters'.counter = counters.counter + 1
                     /\ counters'.cn_counter = counters.cn_counter
                     /\ counter_val'[p] = counters'.counter]_vars

\* the record was created by a credit-note call, which left the invoice
\* counter at 0, and an invoice call advanced that one afterwards
C15_Witness ==
    /\ Len(issued) = 2
    /\ issued[1].field = "cn_counter"
    /\ issued[2].field = "counter"
    /\ counters = [exists |-> TRUE, counter |-> 1, cn_counter |-> 1]

\* C16: a handler starts to render a new document - an invoice or a new
\* credit note - only in the step that has written its record to the
\* invoices collection; the render itself ends the request with 200 or,
\* when it fails, 500, and either way leaves the invoices collection and
\* the counters as they are, so that the record stays stored and the number
\* consumed; the PDF of a new document is returned only by a render that
\* followed its save.
C16_SavedBeforeRender ==
    [][\A p \in Procs :
          /\ (pc'[p] \in {"render", "render_cn"} /\ pc[p] # pc'[p]) =>
                /\ pc[p] = (IF pc'[p] = "render" THEN "build" ELSE "save_cn")
                /\ doc'[p] # NoDoc
                /\ DocId(doc'[p].bill_no) \in DOMAIN invoices'
                /\ invoices'[DocId(doc'[p].bill_no)] = doc'[p]
          /\ (pc[p] \in {"render", "render_cn"} /\ pc'[p] # pc[p]) =>
                /\ pc'[p] = "idle"
                /\ resp'[p].status \in {200, 500}
                /\ invoices' = invoices
                /\ counters' = counters
          /\ (/\ pdf'[p] # pdf[p]
              /\ pdf'[p] # <<>>
              /\ pc[p] \notin {"render_existing", "download", "zip", "email"}) =>
                pc[p] \in {"render", "render_cn"}]_vars

\* the render of a new credit note failed: its record is stored and its
\* number consumed
C16_Witness ==
    \E p \in Procs :
        /\ req[p].op = "credit_note"
        /\ pc[p] = "idle"
        /\ resp[p].status = 500
        /\ doc[p].is_credit_note
        /\ DocId(doc[p].bill_no) \in DOMAIN invoices
        /\ invoices[DocId(doc[p].bill_no)] = doc[p]
        /\ counters.cn_counter = counter_val[p]
        /\ counter_val[p] > 0

\* the PDFs that were returned to the handlers' last requests
RenderedPdfs == UNION {{pdf[p][i] : i \in 1..Len(pdf[p])} : p \in Procs}

\* every PDF whose grand total is in `examples` has the words given there
WordsAre(examples) ==
    \A x \in RenderedPdfs : \A e \in examples :
        x.grand_total = e[1] => x.words = e[2]

\* C17 as claimed: the amount in words is "Zero Only" for 0, "One Thousand
\* Only" for 1000, "One Lakh Only" for 100000 and "One Lakh Twenty-Three
\* Thousand Four Hundred Sixty-Seven and Eighty-Nine Paise Only" for
\* 1234567.89.
C17_WordsAsClaimed ==
    WordsAre({<<0, "Zero Only">>,
              <<1000000, "One Thousand Only">>,
              <<100000000, "One Lakh Only">>,
              <<1234567890, "One Lakh Twenty-Three Thousand Four Hundred Sixty-Seven and Eighty-Nine Paise Only">>})

\* the amounts of WordAmounts and 1180.00, in words
WordExamples ==
    {<<0, "Zero Only">>,
     <<50, "Zero and Five Paise Only">>,
     <<19000, "Nineteen Only">>,
     <<20000, "Twenty Only">>,
     <<21500, "Twenty One and Fifty Paise Only">>,
     <<99990, "Ninety Nine and Ninety Nine Paise Only">>,
     <<100000, "One Hundred Only">>,
     <<101100, "One Hundred One and Ten Paise Only">>,
     <<999000, "Nine Hundred Ninety Nine Only">>,
     <<1000000, "One Thousand Only">>,
     <<1001000, "One Thousand One Only">>,
     <<1180000, "One Thousand One Hundred Eighty Only">>,
     <<20000000, "Twenty Thousand Only">>,
     <<100000000, "One Lakh Only">>,
     <<100001000, "One Lakh One Only">>,
     <<1234567890, "Twelve Lakh Thirty Four Thousand Five Hundred Sixty Seven and Eighty Nine Paise Only">>,
     <<2000000000, "Twenty Lakh Only">>}

\* C17 as amended: the amount in words is "Zero Only" for 0, "One Thousand
\* Only" for 1000, "One Lakh Only" for 100000 and "Twelve Lakh Thirty Four
\* Thousand Five Hundred Sixty Seven and Eighty Nine Paise Only" for
\* 1234567.89: the whole rupees in crore, lakh, thousand and the rest, each
\* group followed by its label, tens and units parted by a blank, " and ..
\* Paise" only when there are paise, and " Only" at the end - as for every
\* amount of WordExamples, and for 1 crore and 1,23,45,678.90, which no
\* document of the model reaches.
C17_WordsIndianGrouping ==
    /\ WordsAre(WordExamples)
    /\ \A x \in RenderedPdfs : \E e \in WordExamples : x.grand_total = e[1]
    /\ ConvertToWords(1000000000) = "One Crore Only"
    /\ ConvertToWords(1234567890) =
         "One Crore Twenty Three Lakh Forty Five Thousand Six Hundred Seventy Eight and Ninety Paise Only"

\* a document of 1234567.89 was rendered, with twelve lakh in its words
C17_Witness ==
    \E x \in RenderedPdfs :
        /\ x.grand_total = 1234567890
        /\ x.words = "Twelve Lakh Thirty Four Thousand Five Hundred Sixty Seven and Eighty Nine Paise Only"

\* C18: a stored document is never overwritten: every storage key of the
\* invoices collection keeps the document it holds, in every step.
C18_NeverOverwritten ==
    [][\A k \in DOMAIN invoices :
          k \in DOMAIN invoices' /\ invoices'[k] = invoices[k]]_vars

\* the generate-invoice request that handler p is serving, alone, will be
\* rejected: its manual number is the number of a stored document, or one
\* of its amounts is no number
EndsRejected(p) ==
    /\ req[p].op = "invoice"
    /\ \/ /\ ~req[p].auto_generate
          /\ pc[p] \in {"save_directories", "number"}
          /\ \E k \in DOMAIN invoices : invoices[k].bill_no = Strip(req[p].manual_bill_no)
       \/ /\ req[p].unparsable
          /\ pc[p] \in {"save_directories", "number", "txn_read", "txn_commit", "build"}

\* C19: no step of a generate-invoice request that ends in rejection
\* changes the counters, the invoices collection, the clients or the
\* particulars (requests served one after the other).
C19_RejectionChangesNothing ==
    [][\A p \in Procs :
          EndsRejected(p) =>
              /\ counters' = counters
              /\ invoices' = invoices
              /\ clients' = clients
              /\ particulars' = particulars]_vars

\* C20: every PDF an endpoint returned for a stored document has the banner
\* "CREDIT NOTE" when the document is a credit note, otherwise "BILL OF
\* SUPPLY" when it is exempt, otherwise "TAX INVOICE", and has the reference
\* line exactly when the banner is "CREDIT NOTE".
C20_BannerByDocument ==
    \A x \in RenderedPdfs :
        \A d \in {e \in StoredDocs : e.bill_no = x.bill_no} :
            /\ x.header_title = (IF d.is_credit_note THEN "CREDIT NOTE"
                                 ELSE IF d.is_non_gst THEN "BILL OF SUPPLY"
                                 ELSE "TAX INVOICE")
            /\ (x.reference # Absent) <=> (x.header_title = "CREDIT NOTE")

====
